---- MODULE Spec2Model ----
(***************************************************************************)
(* Model of the RAG orchestrator: the ingest workflow and the query        *)
(* workflow of main.py, the Qdrant adapter of vector_db.py and the loader  *)
(* and embedder of data_loader.py.                                         *)
(* The evaluation script of evaluate_rag.py and the wait for a run of the   *)
(* pages have a specification each.                                        *)
(*                                                                         *)
(* Workflow runs are interleaved at the granularity of their calls to the  *)
(* external services (document reader, embedding API, Qdrant, chat API).   *)
(* A batch upsert is applied point by point, which is the granularity at   *)
(* which the backend is atomic.  Every external call may fail.             *)
(*                                                                         *)
(* Strings that are formatted or parsed are sequences of one-character     *)
(* strings; chunk texts and questions are opaque non-empty strings.        *)
(* uuid5 is taken to be collision free (it is a SHA-1 digest of the        *)
(* namespace and the name).                                                *)
(***************************************************************************)
EXTENDS Integers, Sequences, FiniteSets, TLC

\* ------------------------------------------------------------------ bounds
NumIngestRuns == 2
MaxChunks == 3
NumVariants == 2
MaxTopK == 2
MaxAttempts == 2
TimeoutTicks == 3
MaxStepTicks == 2

\* ------------------------------------------------- constants of the program
DefaultTopK == 5

IngestRuns == 1..NumIngestRuns
\* Query runs share nothing but the collection, which they read: one run is
\* followed.
QueryRuns == {1}

None == "none"
\* an event without the optional field
NoSourceId == <<>>
NoTopK == 0

\* ------------------------------------------------------------------ inputs
\* Paths of the uploaded files, and the source ids a caller may supply.
PathP == <<"p">>
PathQ == <<"q">>
Paths == {PathP, PathQ}
SourceIds == {<<"d">>, <<"d", ":", "0">>}

TextsP == <<"a1", "a2", "a3", "a4", "a5">>
TextsQ == <<"b1", "b2", "b3", "b4", "b5">>
Questions == {"a1"}

\* The ingest events: the two documents under one source id, the first
\* document under a source id that contains the separator of the point name,
\* and the second document without a source id.
IngestEventSeq ==
  << [pdf_file_path |-> PathP, source_id |-> <<"d">>],
     [pdf_file_path |-> PathQ, source_id |-> <<"d">>],
     [pdf_file_path |-> PathP, source_id |-> <<"d", ":", "0">>],
     [pdf_file_path |-> PathQ, source_id |-> NoSourceId] >>
IngestEvents == {IngestEventSeq[k] : k \in 1..Len(IngestEventSeq)}
QueryEvents == [question : Questions, top_k : (1..MaxTopK) \cup {NoTopK}]

\* ----------------------------------------------------------- data_loader.py
\* The chunk list the reader and the splitter produce for the file at a path:
\* the file at "p" chunks into MaxChunks segments, the one at "q" into one
\* fewer, with other texts.  No chunk is empty.
load_and_chunk_pdf(file_path) ==
  IF file_path = PathP
    THEN [i \in 1..MaxChunks |-> TextsP[i]]
    ELSE [i \in 1..(MaxChunks - 1) |-> TextsQ[i]]

\* Embeddings are unit vectors; they are scaled here to integer vectors of
\* norm 5, so that cosine similarity orders as the dot product does.
UnitVectors == << <<5, 0>>, <<4, 3>>, <<3, 4>>, <<0, 5>> >>

\* EMBEDDING_DIM, and the default dim of QdrantStorage: 3072 in the program,
\* the number of components of the vectors here.
EMBEDDING_DIM == Len(UnitVectors[1])

TextNum(text) ==
  CASE text \in {TextsP[i] : i \in 1..Len(TextsP)} ->
         (CHOOSE i \in 1..Len(TextsP) : TextsP[i] = text)
    [] text \in {TextsQ[i] : i \in 1..Len(TextsQ)} ->
         (CHOOSE i \in 1..Len(TextsQ) : TextsQ[i] = text) + 1
    [] OTHER -> 3

\* The vector the embedding service answers for one text.  The service is
\* not bit-for-bit repeatable: variant is the answer it picks for one call.
EmbedVec(text, variant) == UnitVectors[((TextNum(text) + variant) % 4) + 1]

\* embed_texts: one vector per text, order preserved.
embed_texts(texts, variant) == [i \in 1..Len(texts) |-> EmbedVec(texts[i], variant)]

\* ------------------------------------------------------------- point ids
DigitChars == <<"0", "1", "2", "3", "4", "5", "6", "7", "8", "9">>

RECURSIVE IntToStr(_)
IntToStr(n) ==
  IF n < 10 THEN <<DigitChars[n + 1]>>
  ELSE IntToStr(n \div 10) \o <<DigitChars[(n % 10) + 1]>>

NAMESPACE_URL == "6ba7b811-9dad-11d1-80b4-00c04fd430c8"

Uuid5(namespace, name) == <<namespace, name>>

\* mutant: the id is derived from the chunk index alone.
PointIdIndexOnly(source_id, i) == Uuid5(NAMESPACE_URL, IntToStr(i))

\* str(uuid.uuid5(uuid.NAMESPACE_URL, name=f"{source_id}:{i}")), i 0-based.
PointId(source_id, i) == Uuid5(NAMESPACE_URL, source_id \o <<":">> \o IntToStr(i))

\* ------------------------------------------------------------------ state
VARIABLES
  collExists,   \* the collection "documents" exists in Qdrant
  collDim,      \* the size of its vectors, 0 while it does not exist
  points,       \* the points of the collection: records id, vector, payload
  ingest,       \* the runs of rag_ingest_pdf
  query,        \* the runs of rag_query_pdf_ai
  harness,      \* the evaluation script of evaluate_rag.py
  poll          \* a call of wait_for_run_output of the pages

vars == <<collExists, collDim, points, ingest, query, harness, poll>>

PointIds == {p.id : p \in points}

\* a run slot for which no event was sent
Absent == [pc |-> "absent"]

\* ------------------------------------------------------------ vector_db.py
\* mutant: the constructor does not create the collection it finds absent.
CtorStepNoCreate(pos, exists) ==
  {[pos |-> "ready", exists |-> exists, error |-> None],
   [pos |-> "raise", exists |-> exists, error |-> "StorageError"]}

\* mutant: create_collection is called without the try/except around it.
CtorStepNoCatch(pos, exists) ==
  CASE pos = "exists" ->
         {[pos |-> IF exists THEN "ready" ELSE "create", exists |-> exists,
           error |-> None],
          [pos |-> "raise", exists |-> exists, error |-> "StorageError"]}
    [] pos = "create" ->
         IF exists
           THEN {[pos |-> "raise", exists |-> exists, error |-> "AlreadyExists"]}
           ELSE {[pos |-> "ready", exists |-> TRUE, error |-> None],
                 [pos |-> "raise", exists |-> exists, error |-> "CreateFailed"]}
    [] pos = "get" ->
         {[pos |-> "raise", exists |-> exists, error |-> "StorageError"]}

\* QdrantStorage.__init__, one call to Qdrant at a time.  pos is the call the
\* constructor is about to make; the result is the set of outcomes: the next
\* position ("ready": constructed, "raise": the constructor raised), whether
\* the collection exists afterwards, and the error raised.  A creation that
\* fails, because the collection was created in between or for another
\* reason, is followed by get_collection, whose error is the one raised:
\* "CreateFailed" when there is still no collection, "StorageError" when
\* the backend failed to answer.
CtorStep(pos, exists) ==
  CASE pos = "exists" ->
         {[pos |-> IF exists THEN "ready" ELSE "create", exists |-> exists,
           error |-> None],
          [pos |-> "raise", exists |-> exists, error |-> "StorageError"]}
    [] pos = "create" ->
         IF exists
           THEN {[pos |-> "get", exists |-> exists, error |-> None]}
           ELSE {[pos |-> "ready", exists |-> TRUE, error |-> None],
                 [pos |-> "get", exists |-> exists, error |-> None]}
    [] pos = "get" ->
         IF exists
           THEN {[pos |-> "ready", exists |-> exists, error |-> None],
                 [pos |-> "raise", exists |-> exists, error |-> "StorageError"]}
           ELSE {[pos |-> "raise", exists |-> exists, error |-> "CreateFailed"]}

\* mutant: a point is inserted without replacing the point of the same id.
InsertPoint(pts, p) == pts \cup {p}

\* mutant: the payload of an existing point is replaced, its vector is kept.
UpsertPointKeepVector(pts, p) ==
  IF \E q \in pts : q.id = p.id
    THEN {IF q.id = p.id THEN [q EXCEPT !.payload = p.payload] ELSE q : q \in pts}
    ELSE pts \cup {p}

\* What Qdrant does with one point of an upsert: the point of the same id,
\* if any, is replaced as a whole.
UpsertPoint(pts, p) == {q \in pts : q.id # p.id} \cup {p}

\* Cosine similarity of two vectors of norm 5, times 25.
Score(v, w) == v[1] * w[1] + v[2] * w[2]

Min(a, b) == IF a < b THEN a ELSE b

\* client.query_points(query, limit, with_payload=True).points: the possible
\* answers of Qdrant, up to limit points by decreasing similarity, ties in
\* any order.
RECURSIVE query_points(_, _, _)
query_points(pts, query_vector, limit) ==
  IF limit <= 0 \/ pts = {} THEN {<<>>}
  ELSE LET best == {p \in pts : \A o \in pts :
                       Score(o.vector, query_vector) <= Score(p.vector, query_vector)}
       IN UNION {{<<p>> \o s : s \in query_points(pts \ {p}, query_vector, limit - 1)}
                 : p \in best}

\* list(a_set): the elements in one of the orders the set may iterate in.
RECURSIVE ListOfSet(_)
ListOfSet(S) ==
  IF S = {} THEN {<<>>}
  ELSE UNION {{<<x>> \o s : s \in ListOfSet(S \ {x})} : x \in S}

\* mutant: each text is put in front of the list, the best result ends last.
RECURSIVE SearchContextsReversed(_)
SearchContextsReversed(results) ==
  IF results = <<>> THEN <<>>
  ELSE LET text == Head(results).payload.text
       IN SearchContextsReversed(Tail(results)) \o (IF text # "" THEN <<text>> ELSE <<>>)

\* The loop of QdrantStorage.search over the results: the texts of the
\* results that have one, in order.
RECURSIVE SearchContexts(_)
SearchContexts(results) ==
  IF results = <<>> THEN <<>>
  ELSE LET text == Head(results).payload.text
       IN (IF text # "" THEN <<text>> ELSE <<>>) \o SearchContexts(Tail(results))

\* mutant: the sources are appended to a list, one per context.
RECURSIVE SearchSourcesList(_)
SearchSourcesList(results) ==
  IF results = <<>> THEN {<<>>}
  ELSE LET payload == Head(results).payload
       IN {(IF payload.text # "" THEN <<payload.source>> ELSE <<>>) \o s
             : s \in SearchSourcesList(Tail(results))}

\* mutant: the source is read from the payload under the key of the text.
SearchSourcesWrongKey(results) ==
  ListOfSet({results[i].payload.text :
               i \in {j \in 1..Len(results) : results[j].payload.text # ""}})

\* The loop of QdrantStorage.search over the results: the set of the sources
\* of the results that have a text, then list(sources).
SearchSources(results) ==
  ListOfSet({results[i].payload.source :
               i \in {j \in 1..Len(results) : results[j].payload.text # ""}})

\* mutant: top_k is not passed on, the query runs with the client's default
\* limit of 10.
searchDefaultLimit(pts, query_vector, top_k) ==
  UNION {{[contexts |-> SearchContexts(results), sources |-> sources]
            : sources \in SearchSources(results)}
         : results \in query_points(pts, query_vector, 10)}

\* QdrantStorage.search: the dictionaries it may return.
search(pts, query_vector, top_k) ==
  UNION {{[contexts |-> SearchContexts(results), sources |-> sources]
            : sources \in SearchSources(results)}
         : results \in query_points(pts, query_vector, top_k)}

\* ------------------------------------------------------- rag_ingest_pdf
SourceIdOf(event) ==
  IF event.source_id = NoSourceId THEN event.pdf_file_path ELSE event.source_id

\* mutant: every payload carries the text of the first chunk.
IngestPointFirstText(chunk_and_src, vectors, i) ==
  [id |-> PointId(chunk_and_src.source_id, i - 1),
   vector |-> vectors[i],
   payload |-> [source |-> chunk_and_src.source_id,
                text |-> chunk_and_src.chunk[1]]]

\* The i-th (1-based) PointStruct that _upsert and QdrantStorage.upsert build.
IngestPoint(chunk_and_src, vectors, i) ==
  [id |-> PointId(chunk_and_src.source_id, i - 1),
   vector |-> vectors[i],
   payload |-> [source |-> chunk_and_src.source_id,
                text |-> chunk_and_src.chunk[i]]]

NewIngestRun(event) ==
  [pc |-> "received", event |-> event,
   chunk_and_src |-> None, vectors |-> None, at |-> "load",
   written |-> 0, output |-> None, err |-> None, attempt |-> 1]

\* An exception leaves the function: the run has failed.
IngestFailed(run, error) ==
  [run EXCEPT !.pc = "failed", !.at = "end", !.err = error,
              !.chunk_and_src = None, !.vectors = None]

\* step "load-and-chunk-pdf"
IngestLoad(r) ==
  /\ ingest[r].pc = "received"
  /\ ingest' = [ingest EXCEPT ![r] =
       [@ EXCEPT !.pc = "chunked", !.at = "embed",
                 !.chunk_and_src =
                    [chunk |-> load_and_chunk_pdf(ingest[r].event.pdf_file_path),
                     source_id |-> SourceIdOf(ingest[r].event)]]]
  /\ UNCHANGED <<collExists, collDim, points, query, harness, poll>>

\* mutant: the error of the loader is caught and the run goes on without chunks.
IngestLoadFailSwallowed(r) ==
  /\ ingest[r].pc = "received"
  /\ ingest' = [ingest EXCEPT ![r] =
       [@ EXCEPT !.pc = "chunked", !.at = "embed", !.err = "DocumentLoadError",
                 !.chunk_and_src = [chunk |-> <<>>,
                                    source_id |-> SourceIdOf(ingest[r].event)]]]
  /\ UNCHANGED <<collExists, collDim, points, query, harness, poll>>

\* step "load-and-chunk-pdf": the reader or the splitter raises
IngestLoadFail(r) ==
  /\ ingest[r].pc = "received"
  /\ ingest' = [ingest EXCEPT ![r] = IngestFailed(@, "DocumentLoadError")]
  /\ UNCHANGED <<collExists, collDim, points, query, harness, poll>>

\* step "embed-and-upsert": embed_texts(chunks)
IngestEmbed(r) ==
  /\ ingest[r].pc = "chunked" /\ ingest[r].at = "embed"
  /\ \E variant \in 0..(NumVariants - 1) :
       ingest' = [ingest EXCEPT ![r] =
         [@ EXCEPT !.vectors = embed_texts(ingest[r].chunk_and_src.chunk, variant),
                   !.at = "exists"]]
  /\ UNCHANGED <<collExists, collDim, points, query, harness, poll>>

IngestEmbedFail(r) ==
  /\ ingest[r].pc = "chunked" /\ ingest[r].at = "embed"
  /\ ingest' = [ingest EXCEPT ![r] = IngestFailed(@, "EmbeddingServiceError")]
  /\ UNCHANGED <<collExists, collDim, points, query, harness, poll>>

\* step "embed-and-upsert": QdrantStorage()
IngestCtor(r) ==
  /\ ingest[r].pc = "chunked" /\ ingest[r].at \in {"exists", "create", "get"}
  /\ \E o \in CtorStep(ingest[r].at, collExists) :
       /\ collExists' = o.exists
       /\ collDim' = IF o.exists /\ ~collExists THEN EMBEDDING_DIM ELSE collDim
       /\ ingest' = [ingest EXCEPT ![r] =
            IF o.pos = "raise" THEN IngestFailed(@, o.error)
            ELSE [@ EXCEPT !.at = IF o.pos = "ready" THEN "upsert" ELSE o.pos]]
  /\ UNCHANGED <<points, query, harness, poll>>

\* step "embed-and-upsert": client.upsert writes the next point of the batch
IngestUpsertPoint(r) ==
  /\ ingest[r].pc = "chunked" /\ ingest[r].at = "upsert"
  /\ ingest[r].written < Len(ingest[r].chunk_and_src.chunk)
  /\ \A i \in 1..Len(ingest[r].vectors) : Len(ingest[r].vectors[i]) = collDim
  /\ points' = UpsertPoint(points,
        IngestPoint(ingest[r].chunk_and_src, ingest[r].vectors, ingest[r].written + 1))
  /\ ingest' = [ingest EXCEPT ![r] = [@ EXCEPT !.written = @ + 1]]
  /\ UNCHANGED <<collExists, collDim, query, harness, poll>>

IngestUpsertFail(r) ==
  /\ ingest[r].pc = "chunked" /\ ingest[r].at = "upsert"
  /\ ingest' = [ingest EXCEPT ![r] = IngestFailed(@, "StorageWriteError")]
  /\ UNCHANGED <<collExists, collDim, points, query, harness, poll>>

\* step "embed-and-upsert": client.upsert returned; RAGUpsertResult(len(ids))
IngestUpserted(r) ==
  /\ ingest[r].pc = "chunked" /\ ingest[r].at = "upsert"
  /\ ingest[r].written = Len(ingest[r].chunk_and_src.chunk)
  /\ ingest' = [ingest EXCEPT ![r] =
       [@ EXCEPT !.pc = "embedded_and_upserted", !.at = "return",
                 !.output = [ingested |-> Len(ingest[r].chunk_and_src.chunk)],
                 !.chunk_and_src = None, !.vectors = None]]
  /\ UNCHANGED <<collExists, collDim, points, query, harness, poll>>

\* return upsert_result.model_dump()
IngestReturn(r) ==
  /\ ingest[r].pc = "embedded_and_upserted"
  /\ ingest' = [ingest EXCEPT ![r] = [@ EXCEPT !.pc = "done", !.at = "end"]]
  /\ UNCHANGED <<collExists, collDim, points, query, harness, poll>>

\* ----------------------------------------------------- rag_query_pdf_ai
\* top_k = int(ctx.event.data.get("top_k", 5))
TopKOf(event) == IF event.top_k = NoTopK THEN DefaultTopK ELSE event.top_k

\* The content of the first choice of the chat completion: a text, or no
\* content at all.
NullContent == <<"None">>
Contents == {<<"o", "k">>, <<" ", "o", "k", " ">>, NullContent}

\* str.strip()
RECURSIVE LStrip(_)
LStrip(s) == IF s # <<>> /\ Head(s) = " " THEN LStrip(Tail(s)) ELSE s

RECURSIVE RStrip(_)
RStrip(s) ==
  IF s # <<>> /\ s[Len(s)] = " " THEN RStrip(SubSeq(s, 1, Len(s) - 1)) ELSE s

Strip(s) == RStrip(LStrip(s))

\* context_block: one "- {ctx}" item per context, joined by blank lines.
ContextBlock(contexts) == [i \in 1..Len(contexts) |-> <<"- ", contexts[i]>>]

UserContent(contexts, question) ==
  [context_block |-> ContextBlock(contexts), question |-> question]

NewQueryRun(event) ==
  [pc |-> "received", event |-> event, at |-> "embed",
   query_vector |-> None, search_result |-> None, user_content |-> None,
   content |-> None, output |-> None, err |-> None]

QueryFailed(run, error) ==
  [run EXCEPT !.pc = "failed", !.at = "end", !.err = error,
              !.query_vector = None, !.search_result = None,
              !.user_content = None, !.content = None]

\* step "vector-search": embed_texts([question])[0]
QueryEmbed(q) ==
  /\ query[q].pc = "received"
  /\ \E variant \in 0..(NumVariants - 1) :
       query' = [query EXCEPT ![q] =
         [@ EXCEPT !.pc = "embedded", !.at = "exists",
                   !.query_vector =
                      embed_texts(<<query[q].event.question>>, variant)[1]]]
  /\ UNCHANGED <<collExists, collDim, points, ingest, harness, poll>>

QueryEmbedFail(q) ==
  /\ query[q].pc = "received"
  /\ query' = [query EXCEPT ![q] = QueryFailed(@, "EmbeddingServiceError")]
  /\ UNCHANGED <<collExists, collDim, points, ingest, harness, poll>>

\* mutant: the constructor calls recreate_collection.
QueryCtorRecreate(q) ==
  /\ query[q].pc = "embedded" /\ query[q].at \in {"exists", "create", "get"}
  /\ collExists' = TRUE /\ collDim' = EMBEDDING_DIM
  /\ points' = {}
  /\ query' = [query EXCEPT ![q] = [@ EXCEPT !.at = "search"]]
  /\ UNCHANGED <<ingest, harness, poll>>

\* step "vector-search": QdrantStorage()
QueryCtor(q) ==
  /\ query[q].pc = "embedded" /\ query[q].at \in {"exists", "create", "get"}
  /\ \E o \in CtorStep(query[q].at, collExists) :
       /\ collExists' = o.exists
       /\ collDim' = IF o.exists /\ ~collExists THEN EMBEDDING_DIM ELSE collDim
       /\ query' = [query EXCEPT ![q] =
            IF o.pos = "raise" THEN QueryFailed(@, o.error)
            ELSE [@ EXCEPT !.at = IF o.pos = "ready" THEN "search" ELSE o.pos]]
  /\ UNCHANGED <<points, ingest, harness, poll>>

\* step "vector-search": QdrantStorage.search; RAGSearchResult
QuerySearch(q) ==
  /\ query[q].pc = "embedded" /\ query[q].at = "search"
  /\ collExists /\ Len(query[q].query_vector) = collDim
  /\ \E search_results \in search(points, query[q].query_vector, TopKOf(query[q].event)) :
       query' = [query EXCEPT ![q] =
         [@ EXCEPT !.pc = "retrieved", !.at = "infer", !.query_vector = None,
                   !.search_result = [contexts |-> search_results.contexts,
                                      sources |-> search_results.sources]]]
  /\ UNCHANGED <<collExists, collDim, points, ingest, harness, poll>>

\* mutant: the error of the search is caught and answered as no result.
QuerySearchFailSwallowed(q) ==
  /\ query[q].pc = "embedded" /\ query[q].at = "search"
  /\ query' = [query EXCEPT ![q] =
       [@ EXCEPT !.pc = "retrieved", !.at = "infer", !.query_vector = None,
                 !.err = "StorageReadError",
                 !.search_result = [contexts |-> <<>>, sources |-> <<>>]]]
  /\ UNCHANGED <<collExists, collDim, points, ingest, harness, poll>>

\* query_points raises: the backend failed, or there is no such collection
QuerySearchFail(q) ==
  /\ query[q].pc = "embedded" /\ query[q].at = "search"
  /\ query' = [query EXCEPT ![q] =
       QueryFailed(@, IF collExists THEN "StorageReadError" ELSE "CollectionNotFound")]
  /\ UNCHANGED <<collExists, collDim, points, ingest, harness, poll>>

\* if not openai_api_key: raise ValueError
QueryNoApiKey(q) ==
  /\ query[q].pc = "retrieved"
  /\ query' = [query EXCEPT ![q] = QueryFailed(@, "ValueError")]
  /\ UNCHANGED <<collExists, collDim, points, ingest, harness, poll>>

\* step "generate-answer": ctx.step.ai.infer
QueryInfer(q) ==
  /\ query[q].pc = "retrieved"
  /\ \E content \in Contents :
       query' = [query EXCEPT ![q] =
         [@ EXCEPT !.pc = "answered", !.at = "return",
                   !.user_content = UserContent(query[q].search_result.contexts,
                                                query[q].event.question),
                   !.content = content]]
  /\ UNCHANGED <<collExists, collDim, points, ingest, harness, poll>>

QueryInferFail(q) ==
  /\ query[q].pc = "retrieved"
  /\ query' = [query EXCEPT ![q] = QueryFailed(@, "GenerationError")]
  /\ UNCHANGED <<collExists, collDim, points, ingest, harness, poll>>

\* answer_text = res[...]["content"].strip(); return {...}
QueryReturn(q) ==
  /\ query[q].pc = "answered"
  /\ query' = [query EXCEPT ![q] =
       IF query[q].content = NullContent THEN QueryFailed(@, "AttributeError")
       ELSE [@ EXCEPT !.pc = "done", !.at = "end",
                      !.output =
                         [answer |-> Strip(query[q].content),
                          sources |-> query[q].search_result.sources,
                          num_contexts |-> Len(query[q].search_result.contexts)]]]
  /\ UNCHANGED <<collExists, collDim, points, ingest, harness, poll>>

\* ---------------------------------------------------------- specifications
NextIngest ==
  \/ \E r \in IngestRuns : IngestLoad(r)
  \/ \E r \in IngestRuns : IngestLoadFail(r)
  \/ \E r \in IngestRuns : IngestEmbed(r)
  \/ \E r \in IngestRuns : IngestEmbedFail(r)
  \/ \E r \in IngestRuns : IngestCtor(r)
  \/ \E r \in IngestRuns : IngestUpsertPoint(r)
  \/ \E r \in IngestRuns : IngestUpsertFail(r)
  \/ \E r \in IngestRuns : IngestUpserted(r)
  \/ \E r \in IngestRuns : IngestReturn(r)

NextQuery ==
  \/ \E q \in QueryRuns : QueryEmbed(q)
  \/ \E q \in QueryRuns : QueryEmbedFail(q)
  \/ \E q \in QueryRuns : QueryCtor(q)
  \/ \E q \in QueryRuns : QuerySearch(q)
  \/ \E q \in QueryRuns : QuerySearchFail(q)
  \/ \E q \in QueryRuns : QueryNoApiKey(q)
  \/ \E q \in QueryRuns : QueryInfer(q)
  \/ \E q \in QueryRuns : QueryInferFail(q)
  \/ \E q \in QueryRuns : QueryReturn(q)

\* Ingest events arrive while the collection does not exist yet; no question
\* is asked.  The runs are interchangeable, so their events are taken in the
\* order of IngestEventSeq.
InitIngest ==
  /\ collExists = FALSE /\ collDim = 0
  /\ points = {}
  /\ \E k \in [IngestRuns -> 1..Len(IngestEventSeq)] :
       /\ \A r, o \in IngestRuns : r < o => k[r] <= k[o]
       /\ ingest = [r \in IngestRuns |-> NewIngestRun(IngestEventSeq[k[r]])]
  /\ query = [q \in QueryRuns |-> Absent]
  /\ harness = Absent /\ poll = Absent

SpecIngest == InitIngest /\ [][NextIngest]_vars

\* The points one ingest run writes when nothing fails.
IngestedPoints(event, variant) ==
  LET chunk_and_src == [chunk |-> load_and_chunk_pdf(event.pdf_file_path),
                        source_id |-> SourceIdOf(event)]
      vectors == embed_texts(chunk_and_src.chunk, variant)
  IN [i \in 1..Len(vectors) |-> IngestPoint(chunk_and_src, vectors, i)]

\* mutant: the points of the sources of the batch are deleted before the
\* batch is written.
UpsertAllReplacingSource(pts, batch) ==
  {p \in pts : \A i \in 1..Len(batch) : p.payload.source # batch[i].payload.source}
     \cup {batch[i] : i \in 1..Len(batch)}

\* QdrantStorage.upsert of a batch that is not interleaved with another.
RECURSIVE UpsertAll(_, _)
UpsertAll(pts, batch) ==
  IF batch = <<>> THEN pts ELSE UpsertAll(UpsertPoint(pts, Head(batch)), Tail(batch))

\* The collection after the ingest runs of history, one after the other.
RECURSIVE StoreAfter(_)
StoreAfter(history) ==
  IF history = <<>> THEN {}
  ELSE UpsertAll(StoreAfter(SubSeq(history, 1, Len(history) - 1)),
                 IngestedPoints(history[Len(history)].event,
                                history[Len(history)].variant))

DoneIngestRun(event) ==
  [NewIngestRun(event) EXCEPT !.pc = "done", !.at = "end",
      !.written = Len(load_and_chunk_pdf(event.pdf_file_path)),
      !.output = [ingested |-> Len(load_and_chunk_pdf(event.pdf_file_path))]]

\* Questions are asked after some ingest runs have completed, one after the
\* other, or before the collection exists.
InitQuery ==
  /\ \E n \in 0..NumIngestRuns :
       \E history \in [1..n -> [event : IngestEvents, variant : 0..(NumVariants - 1)]] :
         /\ points = StoreAfter(history)
         /\ ingest = [r \in IngestRuns |->
                        IF r <= n THEN DoneIngestRun(history[r].event) ELSE Absent]
         /\ collExists = (n > 0)
         /\ collDim = IF n > 0 THEN EMBEDDING_DIM ELSE 0
  /\ query \in [QueryRuns -> {NewQueryRun(e) : e \in QueryEvents}]
  /\ harness = Absent /\ poll = Absent

SpecQuery == InitQuery /\ [][NextQuery]_vars

\* -------------------------------------------------- retries of an ingest
\* The run is cancelled between two of its calls.
IngestCancel(r) ==
  /\ ingest[r].pc \in {"received", "chunked", "embedded_and_upserted"}
  /\ ingest' = [ingest EXCEPT ![r] = IngestFailed(@, "Cancelled")]
  /\ UNCHANGED <<collExists, collDim, points, query, harness, poll>>

\* The orchestrator invokes rag_ingest_pdf again with the event of a run that
\* was cancelled or failed.  After a cancellation the function starts over;
\* after a failure, ctx.step.run answers "load-and-chunk-pdf" with the output
\* it recorded when that step had succeeded, and runs the failed step anew.
IngestReinvoke(r) ==
  /\ ingest[r].pc = "failed" /\ ingest[r].attempt < MaxAttempts
  /\ ingest' = [ingest EXCEPT ![r] =
       IF ingest[r].err \in {"Cancelled", "DocumentLoadError"}
         THEN [NewIngestRun(ingest[r].event) EXCEPT !.attempt = ingest[r].attempt + 1]
         ELSE [NewIngestRun(ingest[r].event) EXCEPT
                 !.attempt = ingest[r].attempt + 1,
                 !.pc = "chunked", !.at = "embed",
                 !.chunk_and_src =
                    [chunk |-> load_and_chunk_pdf(ingest[r].event.pdf_file_path),
                     source_id |-> SourceIdOf(ingest[r].event)]]]
  /\ UNCHANGED <<collExists, collDim, points, query, harness, poll>>

NextRetry ==
  \/ NextIngest
  \/ \E r \in IngestRuns : IngestCancel(r)
  \/ \E r \in IngestRuns : IngestReinvoke(r)

\* One run of rag_ingest_pdf, retried, after some ingest runs have completed.
InitRetry ==
  /\ \E n \in 0..(NumIngestRuns - 1) :
       \E history \in [1..n -> [event : IngestEvents, variant : 0..(NumVariants - 1)]] :
         /\ points = StoreAfter(history)
         /\ \E event \in IngestEvents :
              ingest = [r \in IngestRuns |->
                          IF r <= n THEN DoneIngestRun(history[r].event)
                          ELSE IF r = n + 1 THEN NewIngestRun(event) ELSE Absent]
         /\ collExists = (n > 0)
         /\ collDim = IF n > 0 THEN EMBEDDING_DIM ELSE 0
  /\ query = [q \in QueryRuns |-> Absent]
  /\ harness = Absent /\ poll = Absent

SpecRetry == InitRetry /\ [][NextRetry]_vars

\* ------------------------------------- a collection that exists already
\* The sizes a collection "documents" that was created before, by this
\* adapter or with another embedding model, can have.
ExistingDims == {EMBEDDING_DIM, EMBEDDING_DIM + 1}

\* One ingest event arrives while the collection exists, without points.
InitExisting ==
  /\ collExists = TRUE /\ collDim \in ExistingDims
  /\ points = {}
  /\ \E event \in IngestEvents :
       ingest = [r \in IngestRuns |-> IF r = 1 THEN NewIngestRun(event) ELSE Absent]
  /\ query = [q \in QueryRuns |-> Absent]
  /\ harness = Absent /\ poll = Absent

SpecExisting == InitExisting /\ [][NextIngest]_vars

\* --------------------------------------------------------- evaluate_rag.py
test_questions ==
  << "What is the main topic of the document?",
     "What methodology is described?",
     "What are the key findings?",
     "What problem does this address?",
     "What are the main components?" >>

ground_truths ==
  << "The document discusses main concepts and methodology",
     "The document describes research methodology",
     "The document presents findings and conclusions",
     "The document addresses a specific problem",
     "The document contains key sections and components" >>

\* The script at its start: position i of the loop over test_questions, the
\* list results, the lines it has printed about the questions, the dictionary
\* data, the lists of the metrics and the scores it reports.
NewHarness ==
  [pc |-> "querying", i |-> 1, results |-> <<>>, log |-> <<>>,
   data |-> None, metrics |-> None, scores |-> None]

\* response.choices[0].message.content of run_rag_query, which is not
\* stripped: a text, or no content at all.
Answers == {<<"o", "k">>, NullContent}

\* run_rag_query(question) with top_k = 5: the dictionaries it may return
\* when no call fails.
run_rag_query(question, pts) ==
  UNION {{[question |-> question, answer |-> answer,
           contexts |-> search_results.contexts,
           sources |-> search_results.sources]
            : search_results \in search(pts, EmbedVec(question, variant), DefaultTopK),
              answer \in Answers}
         : variant \in 0..(NumVariants - 1)}

\* One turn of the loop: run_rag_query returns, the result is appended, and
\* the answer is printed; result['answer'][:80] raises TypeError when the
\* answer is None, which the except clause prints as an error.  The
\* constructor of the adapter has created the collection if it was absent.
EvalQuery ==
  /\ harness.pc = "querying" /\ harness.i <= Len(test_questions)
  /\ collExists => collDim = EMBEDDING_DIM
  /\ \E result \in run_rag_query(test_questions[harness.i], points) :
       harness' = [harness EXCEPT
          !.i = @ + 1,
          !.results = Append(@, result),
          !.log = Append(@, IF result.answer = NullContent
                              THEN [i |-> harness.i, line |-> "Error", error |-> "TypeError"]
                              ELSE [i |-> harness.i, line |-> "Answer", error |-> None])]
  /\ collExists' = TRUE
  /\ collDim' = IF collExists THEN collDim ELSE EMBEDDING_DIM
  /\ UNCHANGED <<points, ingest, query, poll>>

\* mutant: the error of a question is not caught, the script ends with it.
EvalQueryRaiseUncaught ==
  /\ harness.pc = "querying" /\ harness.i <= Len(test_questions)
  /\ harness' = [harness EXCEPT !.pc = "failed"]
  /\ UNCHANGED <<collExists, collDim, points, ingest, query, poll>>

\* One turn of the loop: a call of run_rag_query raises (the embedding, the
\* constructor, the search or the chat completion); the error is printed and
\* the loop goes on.  The collection exists afterwards if the constructor
\* had returned.
EvalQueryRaise ==
  /\ harness.pc = "querying" /\ harness.i <= Len(test_questions)
  /\ harness' = [harness EXCEPT
        !.i = @ + 1,
        !.log = Append(@, [i |-> harness.i, line |-> "Error", error |-> "QueryError"])]
  /\ \E constructed \in BOOLEAN :
       /\ collExists' = (collExists \/ constructed)
       /\ collDim' = IF collExists' /\ ~collExists THEN EMBEDDING_DIM ELSE collDim
  /\ UNCHANGED <<points, ingest, query, poll>>

\* if not results: exit(1)
EvalNoResults ==
  /\ harness.pc = "querying" /\ harness.i > Len(test_questions)
  /\ harness.results = <<>>
  /\ harness' = [harness EXCEPT !.pc = "exit"]
  /\ UNCHANGED <<collExists, collDim, points, ingest, query, poll>>

\* data = {...}: the columns of the results, and the first len(results)
\* reference answers.
EvalBuildData ==
  /\ harness.pc = "querying" /\ harness.i > Len(test_questions)
  /\ harness.results # <<>>
  /\ harness' = [harness EXCEPT
        !.pc = "built",
        !.data = [question |-> [k \in 1..Len(harness.results) |-> harness.results[k].question],
                  answer |-> [k \in 1..Len(harness.results) |-> harness.results[k].answer],
                  contexts |-> [k \in 1..Len(harness.results) |-> harness.results[k].contexts],
                  ground_truth |-> SubSeq(ground_truths, 1, Len(harness.results))]]
  /\ UNCHANGED <<collExists, collDim, points, ingest, query, poll>>

\* evaluate(dataset, metrics=[faithfulness, answer_relevancy]): one score per
\* row and metric.  The metrics are opaque; a score is 0 or 1 here, and the
\* two lists are any of those that alternate from a first score.
EvalEvaluate ==
  /\ harness.pc = "built"
  /\ \E f, a \in 0..1 :
       harness' = [harness EXCEPT
          !.pc = "evaluated",
          !.metrics = [faithfulness |-> [k \in 1..Len(harness.data.question) |-> (k + f) % 2],
                       answer_relevancy |-> [k \in 1..Len(harness.data.question) |-> (k + a) % 2]]]
  /\ UNCHANGED <<collExists, collDim, points, ingest, query, poll>>

\* evaluate raises
EvalEvaluateFail ==
  /\ harness.pc = "built"
  /\ harness' = [harness EXCEPT !.pc = "failed"]
  /\ UNCHANGED <<collExists, collDim, points, ingest, query, poll>>

RECURSIVE SumSeq(_)
SumSeq(list) == IF list = <<>> THEN 0 ELSE Head(list) + SumSeq(Tail(list))

\* sum(list) / len(list), as the fraction it is.
Mean(list) == [num |-> SumSeq(list), den |-> Len(list)]

\* The means of the two lists and their average are printed and written to
\* evaluation_<timestamp>.json with the results.
EvalReport ==
  /\ harness.pc = "evaluated"
  /\ harness' = [harness EXCEPT
        !.pc = "saved",
        !.scores = [faithfulness |-> Mean(harness.metrics.faithfulness),
                    answer_relevancy |-> Mean(harness.metrics.answer_relevancy),
                    average |->
                      [num |-> SumSeq(harness.metrics.faithfulness)
                                 + SumSeq(harness.metrics.answer_relevancy),
                       den |-> 2 * Len(harness.metrics.faithfulness)]]]
  /\ UNCHANGED <<collExists, collDim, points, ingest, query, poll>>

NextEval ==
  \/ EvalQuery
  \/ EvalQueryRaise
  \/ EvalNoResults
  \/ EvalBuildData
  \/ EvalEvaluate
  \/ EvalEvaluateFail
  \/ EvalReport

\* The script is started after one ingest run has completed, or before any.
InitEval ==
  /\ \E n \in 0..1 :
       \E history \in [1..n -> [event : IngestEvents, variant : 0..(NumVariants - 1)]] :
         /\ points = StoreAfter(history)
         /\ ingest = [r \in IngestRuns |->
                        IF r <= n THEN DoneIngestRun(history[r].event) ELSE Absent]
         /\ collExists = (n > 0)
         /\ collDim = IF n > 0 THEN EMBEDDING_DIM ELSE 0
  /\ query = [q \in QueryRuns |-> Absent]
  /\ harness = NewHarness /\ poll = Absent

SpecEval == InitEval /\ [][NextEval]_vars

\* --------------------------------------- pages/query.py, pages/upload.py
\* Time is counted in ticks of poll_interval_s.  timeout_s is at most
\* TimeoutTicks ticks; one turn of the loop, the request of fetch_runs and the
\* sleep, takes between one and MaxStepTicks ticks.

CompletedStatuses == {"Completed", "Succeeded", "Success", "Finished"}
FailedStatuses == {"Failed", "Cancelled"}
\* The statuses of a run that is not over, and a run without a status.
NoStatus == "no status"
PendingStatuses == {"Queued", "Running", NoStatus}

\* The output of a run: a payload, an empty dictionary, or none.
EmptyDict == "{}"
Outputs == {"payload", EmptyDict, None}

\* fetch_runs(event_id): the list of the runs of the event; the empty list
\* when there is no run yet or when the request failed.
FetchResults ==
  {<<>>} \cup
  {<<[status |-> st, output |-> out]>> :
      st \in CompletedStatuses \cup FailedStatuses \cup PendingStatuses,
      out \in Outputs}

\* run.get("status", "Running")
StatusOf(run) == IF run.status = NoStatus THEN "Running" ELSE run.status

\* run.get("output") or {}
OutputOf(run) == IF run.output \in {None, EmptyDict} THEN EmptyDict ELSE run.output

\* Neither of the two tests of the status applies: there is no run in the
\* list, or its status is none of the completed and failed ones.
NotOver(runs) ==
  IF runs = <<>> THEN TRUE
  ELSE StatusOf(runs[1]) \notin CompletedStatuses \cup FailedStatuses

\* wait_for_run_output(event_id, timeout_s) at start = time.time()
NewPoll(timeout_s) ==
  [pc |-> "polling", timeout_s |-> timeout_s, elapsed |-> 0,
   last_status |-> "Pending", returned |-> None]

\* A turn of the loop that ends with return run.get("output") or {}
PollReturn ==
  /\ poll.pc = "polling"
  /\ \E runs \in FetchResults :
       /\ runs # <<>> /\ StatusOf(runs[1]) \in CompletedStatuses
       /\ poll' = [poll EXCEPT !.pc = "returned", !.last_status = StatusOf(runs[1]),
                               !.returned = OutputOf(runs[1])]
  /\ UNCHANGED <<collExists, collDim, points, ingest, query, harness>>

\* A turn of the loop that ends with raise RuntimeError
PollRuntimeError ==
  /\ poll.pc = "polling"
  /\ \E runs \in FetchResults :
       /\ runs # <<>> /\ StatusOf(runs[1]) \in FailedStatuses
       /\ poll' = [poll EXCEPT !.pc = "RuntimeError", !.last_status = StatusOf(runs[1])]
  /\ UNCHANGED <<collExists, collDim, points, ingest, query, harness>>

\* mutant: the timeout is tested before the status of the run.
PollTimeoutFirst ==
  /\ poll.pc = "polling"
  /\ poll.elapsed > poll.timeout_s
  /\ \E runs \in FetchResults :
       poll' = [poll EXCEPT !.pc = "TimeoutError",
                  !.last_status = IF runs = <<>> THEN @ ELSE StatusOf(runs[1])]
  /\ UNCHANGED <<collExists, collDim, points, ingest, query, harness>>

\* A turn of the loop that ends with raise TimeoutError: no run was
\* fetched, or one that is not over, and elapsed > timeout_s
PollTimeout ==
  /\ poll.pc = "polling"
  /\ poll.elapsed > poll.timeout_s
  /\ \E runs \in FetchResults :
       /\ NotOver(runs)
       /\ poll' = [poll EXCEPT !.pc = "TimeoutError",
                     !.last_status = IF runs = <<>> THEN @ ELSE StatusOf(runs[1])]
  /\ UNCHANGED <<collExists, collDim, points, ingest, query, harness>>

\* A turn of the loop that ends with time.sleep(poll_interval_s); elapsed
\* is what the next turn computes.
PollSleep ==
  /\ poll.pc = "polling"
  /\ poll.elapsed <= poll.timeout_s
  /\ \E runs \in FetchResults, step \in 1..MaxStepTicks :
       /\ NotOver(runs)
       /\ poll' = [poll EXCEPT !.elapsed = @ + step,
                     !.last_status = IF runs = <<>> THEN @ ELSE StatusOf(runs[1])]
  /\ UNCHANGED <<collExists, collDim, points, ingest, query, harness>>

NextPoll ==
  \/ PollReturn
  \/ PollRuntimeError
  \/ PollTimeout
  \/ PollSleep

\* A page has sent its event and waits for the run.
InitPoll ==
  /\ collExists = FALSE /\ collDim = 0 /\ points = {}
  /\ ingest = [r \in IngestRuns |-> Absent]
  /\ query = [q \in QueryRuns |-> Absent]
  /\ harness = Absent
  /\ \E timeout_s \in 1..TimeoutTicks : poll = NewPoll(timeout_s)

\* The loop is the only thing the script does: it is not suspended forever.
SpecPoll == InitPoll /\ [][NextPoll]_vars /\ WF_vars(NextPoll)

\* ------------------------------------------------------------- properties
\* The source id and the chunk list of the document of an ingest run.
RunSource(r) == SourceIdOf(ingest[r].event)
RunChunks(r) == load_and_chunk_pdf(ingest[r].event.pdf_file_path)
RunIds(r) == {PointId(RunSource(r), i) : i \in 0..(Len(RunChunks(r)) - 1)}

Upserted(r) == ingest[r].pc \in {"embedded_and_upserted", "done"}

\* C1: once an ingest run of a source id and a chunk list has upserted its
\* batch, every write of another run of the same source id and the same chunk
\* list overwrites: it leaves the set of point ids and the number of points
\* of the collection as they are.
C1_IngestIdempotent ==
  [][\A r \in IngestRuns :
       (/\ ingest'[r].written = ingest[r].written + 1
        /\ \E o \in IngestRuns \ {r} :
             /\ Upserted(o)
             /\ RunSource(o) = RunSource(r)
             /\ RunChunks(o) = RunChunks(r))
       => (/\ {p.id : p \in points'} = PointIds
           /\ Cardinality(points') = Cardinality(points))]_vars

\* Two runs of the same source id and chunk list are done, the embedding
\* service answered them differently, and the collection holds one point per
\* chunk.
C1_Witness ==
  \E r \in IngestRuns : \E o \in IngestRuns \ {r} :
    /\ ingest[r].pc = "done" /\ ingest[o].pc = "done"
    /\ RunSource(o) = RunSource(r) /\ RunChunks(o) = RunChunks(r)
    /\ Cardinality(points) = Len(RunChunks(r))
    /\ \E p \in points : p.vector # EmbedVec(p.payload.text, 0)

\* C2: when an ingest run has upserted its N chunks under source id S and no
\* other run has written to the collection, which was empty, the run reports
\* ingested = N and the collection holds exactly N points, the point of id
\* PointId(S, i) carrying source S and the text of chunk i, for i in 0..N-1.
C2_IngestFromEmpty ==
  \A r \in IngestRuns :
    (/\ Upserted(r)
     /\ \A o \in IngestRuns \ {r} : ingest[o].written = 0)
    => (/\ ingest[r].output.ingested = Len(RunChunks(r))
        /\ Cardinality(points) = Len(RunChunks(r))
        /\ PointIds = RunIds(r)
        /\ \A i \in 0..(Len(RunChunks(r)) - 1) :
             \E p \in points :
               /\ p.id = PointId(RunSource(r), i)
               /\ p.payload = [source |-> RunSource(r), text |-> RunChunks(r)[i + 1]])

\* A run of a document of three chunks under source id "d" is done, alone.
C2_Witness ==
  \E r \in IngestRuns :
    /\ ingest[r].pc = "done"
    /\ \A o \in IngestRuns \ {r} : ingest[o].written = 0
    /\ RunSource(r) = <<"d">>
    /\ Len(RunChunks(r)) = 3
    /\ ingest[r].output.ingested = 3
    /\ Cardinality(points) = 3

\* The runs of the query workflow that hold the result of their search.
Retrieved(q) == query[q].pc \in {"retrieved", "answered", "done"}

StoredSources == {p.payload.source : p \in points}

\* C3: the search of a query run with a positive top_k returns at most top_k
\* contexts, and at most as many contexts as the collection holds points.
C3_TopKBound ==
  \A q \in QueryRuns :
    Retrieved(q) =>
      /\ Len(query[q].search_result.contexts) <= TopKOf(query[q].event)
      /\ Len(query[q].search_result.contexts) <= Cardinality(points)

\* A search with top_k = 1 over a collection of several points returned one
\* context, and a search with the default top_k returned every point.
C3_Witness ==
  \E q \in QueryRuns :
    /\ Retrieved(q)
    /\ Cardinality(points) > TopKOf(query[q].event)
    /\ Len(query[q].search_result.contexts) = TopKOf(query[q].event)

\* C4: while the collection holds no point, also when it did not exist before
\* the run, a query run is never refused for the lack of a collection, its
\* search can be answered and is answered with no context and no source, the
\* answer generation can then run and runs on an empty context block, and the
\* run that completes reports num_contexts = 0.
C4_EmptyStoreQuery ==
  \A q \in QueryRuns :
    points = {} =>
      /\ query[q].pc = "failed" => query[q].err # "CollectionNotFound"
      /\ (query[q].pc = "embedded" /\ query[q].at = "search") => ENABLED QuerySearch(q)
      /\ Retrieved(q) =>
           query[q].search_result = [contexts |-> <<>>, sources |-> <<>>]
      /\ query[q].pc = "retrieved" => ENABLED QueryInfer(q)
      /\ query[q].pc \in {"answered", "done"} =>
           query[q].user_content.context_block = <<>>
      /\ query[q].pc = "done" =>
           /\ query[q].output.num_contexts = 0
           /\ query[q].output.sources = <<>>
           /\ query[q].output.answer = <<"o", "k">>

\* A query run that found no collection has created it, searched it and
\* completed with an answer and no context.
C4_Witness ==
  \E q \in QueryRuns :
    /\ \A r \in IngestRuns : ingest[r].pc = "absent"
    /\ points = {} /\ collExists
    /\ query[q].pc = "done"
    /\ query[q].output.num_contexts = 0

\* C5: a completed query run reports at most top_k contexts, and every source
\* it reports is the source of a stored point; so every reported source is S
\* when the collection holds points of the single source S only.
C5_SourcesAreStored ==
  \A q \in QueryRuns :
    query[q].pc = "done" =>
      /\ query[q].output.num_contexts <= TopKOf(query[q].event)
      /\ \A i \in 1..Len(query[q].output.sources) :
           query[q].output.sources[i] \in StoredSources
      /\ \A S \in StoredSources :
           StoredSources = {S} =>
             \A i \in 1..Len(query[q].output.sources) : query[q].output.sources[i] = S

\* A query with top_k = 2 over a collection of three points of source "d"
\* completed with two contexts and the source list ["d"].
C5_Witness ==
  \E q \in QueryRuns :
    /\ query[q].pc = "done"
    /\ StoredSources = {<<"d">>}
    /\ Cardinality(points) = 3
    /\ query[q].event.top_k = 2
    /\ query[q].output.num_contexts = 2
    /\ query[q].output.sources = <<<<"d">>>>

\* C6: the result of a completed query run lists no source twice, and its
\* num_contexts is the number of context items of the prompt.
C6_DedupAndCount ==
  \A q \in QueryRuns :
    query[q].pc = "done" =>
      /\ \A i, j \in 1..Len(query[q].output.sources) :
           query[q].output.sources[i] = query[q].output.sources[j] => i = j
      /\ query[q].output.num_contexts = Len(query[q].user_content.context_block)

\* A completed query run used several contexts of one source and lists that
\* source once.
C6_Witness ==
  \E q \in QueryRuns :
    /\ query[q].pc = "done"
    /\ query[q].output.num_contexts >= 2
    /\ Len(query[q].user_content.context_block) >= 2
    /\ Len(query[q].output.sources) = 1

\* C7: an ingest run moves received -> chunked -> embedded_and_upserted ->
\* done and never back; a step that raises in received or chunked moves it to
\* failed, where it stays; no raised error leaves the run anywhere else; the
\* batch is never restarted, points are written in chunked only, and a run
\* whose loader failed has written nothing.
C7_IngestOrder ==
  [][\A r \in IngestRuns :
       LET a == ingest[r].pc
           b == ingest'[r].pc
       IN /\ \/ b = a
             \/ a = "received" /\ b = "chunked"
             \/ a = "chunked" /\ b = "embedded_and_upserted"
             \/ a = "embedded_and_upserted" /\ b = "done"
             \/ a \in {"received", "chunked"} /\ b = "failed"
          /\ ingest'[r].err # None => b = "failed"
          /\ b = "failed" => ingest'[r].err # None
          /\ ingest'[r].written >= ingest[r].written
          /\ ingest'[r].written # ingest[r].written => a = "chunked"
          /\ ingest'[r].err = "DocumentLoadError" => ingest'[r].written = 0
          /\ (a = "received" /\ b = "failed") => ingest'[r].err = "DocumentLoadError"]_vars

\* One run is done, another failed while writing its batch, after its first
\* point, and a third kind of end, a failed loader, is reachable as well.
C7_Witness ==
  \E r \in IngestRuns : \E o \in IngestRuns \ {r} :
    /\ ingest[r].pc = "done"
    /\ ingest[o].pc = "failed"
    /\ ingest[o].err = "StorageWriteError"
    /\ ingest[o].written >= 1

\* C8: a query run moves received -> embedded -> retrieved -> answered ->
\* done and never back; a step that raises moves it to failed, where it
\* stays; no raised error leaves the run anywhere else, so a run that is done
\* has an answer and no error.
C8_QueryOrder ==
  [][\A q \in QueryRuns :
       LET a == query[q].pc
           b == query'[q].pc
       IN /\ \/ b = a
             \/ a = "received" /\ b = "embedded"
             \/ a = "embedded" /\ b = "retrieved"
             \/ a = "retrieved" /\ b = "answered"
             \/ a = "answered" /\ b = "done"
             \/ a \in {"received", "embedded", "retrieved", "answered"} /\ b = "failed"
          /\ query'[q].err # None => b = "failed"
          /\ b = "failed" => query'[q].err # None
          /\ b = "done" =>
               /\ query'[q].err = None
               /\ query'[q].output.answer = Strip(query'[q].content)]_vars

\* The generation step of a query run raised after its search, and the run
\* is failed.
C8_Witness ==
  \E q \in QueryRuns :
    /\ query[q].pc = "failed"
    /\ query[q].err = "GenerationError"
    /\ points # {}

\* The source ids of the events, given or defaulted to the path.
AllSourceIds == SourceIds \cup Paths

PointIdInjective ==
  \A s1, s2 \in AllSourceIds : \A i, j \in 0..(MaxChunks - 1) :
    PointId(s1, i) = PointId(s2, j) => (s1 = s2 /\ i = j)

\* C9: the point id determines the source id and the chunk index it is
\* derived from; every stored point carries the payload of the source its id
\* is derived from; and when two runs of different source ids have upserted
\* their batches the collection holds every point of both, each with the
\* source id of its run.
C9_IdsInjective ==
  /\ PointIdInjective
  /\ \A p \in points :
       \E i \in 0..(MaxChunks - 1) : p.id = PointId(p.payload.source, i)
  /\ \A r \in IngestRuns : \A o \in IngestRuns \ {r} :
       (RunSource(r) # RunSource(o) /\ Upserted(r) /\ Upserted(o))
       => \A id \in RunIds(r) :
            \E p \in points : p.id = id /\ p.payload.source = RunSource(r)

\* Two runs of the source ids "d" and "d:0" wrote their batches at the same
\* time and are done; the collection holds the points of both.
C9_Witness ==
  \E r \in IngestRuns : \E o \in IngestRuns \ {r} :
    /\ ingest[r].pc = "done" /\ ingest[o].pc = "done"
    /\ RunSource(r) = <<"d">> /\ RunSource(o) = <<"d", ":", "0">>
    /\ Cardinality(points) = Len(RunChunks(r)) + Len(RunChunks(o))

\* C10: every point a step stores is, vector and payload together, a point
\* one run writes; and the write of a point by a run leaves, under the id of that
\* point, exactly the point of that run.
C10_LastWriteWins ==
  [][/\ \A p \in points' \ points :
          \E r \in IngestRuns : \E i \in 1..Len(RunChunks(r)) :
            /\ p.id = PointId(RunSource(r), i - 1)
            /\ p.payload = [source |-> RunSource(r), text |-> RunChunks(r)[i]]
            /\ \E variant \in 0..(NumVariants - 1) :
                 p.vector = EmbedVec(RunChunks(r)[i], variant)
     /\ \A r \in IngestRuns :
          ingest'[r].written = ingest[r].written + 1 =>
            LET p == IngestPoint(ingest[r].chunk_and_src, ingest[r].vectors,
                                 ingest[r].written + 1)
            IN /\ p \in points'
               /\ \A q \in points' : q.id = p.id => q = p
               /\ \A q \in points : q.id # p.id => q \in points']_vars

\* Two runs of the same source id and of different documents are both
\* writing their batches, each has written its first point, and the point
\* stored under that id is the one of the second of them.
C10_Witness ==
  \E r \in IngestRuns : \E o \in IngestRuns \ {r} :
    /\ RunSource(r) = RunSource(o)
    /\ RunChunks(r) # RunChunks(o)
    /\ ingest[r].at = "upsert" /\ ingest[o].at = "upsert"
    /\ ingest[r].written = 1 /\ ingest[o].written = 1
    /\ IngestPoint(ingest[r].chunk_and_src, ingest[r].vectors, 1) \in points

\* C11: an ingest run that was cancelled or failed, before chunking, after
\* chunking or after some points of the batch were written, and was invoked
\* again with the same event, ends with the store an uninterrupted run ends
\* with: the points of the ids of the run are the batch of one embedding of
\* the chunks, and no attempt changes a point of another id.
C11_RetryConverges ==
  /\ [](\A r \in IngestRuns :
         (Upserted(r) /\ ingest[r].attempt > 1) =>
            \E variant \in 0..(NumVariants - 1) :
               {p \in points : p.id \in RunIds(r)} =
                  {IngestedPoints(ingest[r].event, variant)[i] :
                      i \in 1..Len(RunChunks(r))})
  /\ [][\A p \in (points' \ points) \cup (points \ points') :
          \E r \in IngestRuns :
             /\ ingest[r].pc = "chunked" /\ ingest[r].at = "upsert"
             /\ p.id \in RunIds(r)]_vars

\* a run that was cancelled or failed was invoked again and has completed
C11_Witness ==
  \E r \in IngestRuns :
     /\ ingest[r].pc = "done" /\ ingest[r].attempt > 1
     /\ points # {}

\* The step of a query run in which QdrantStorage.search answers.
Searches(q) ==
  /\ query[q].pc = "embedded" /\ query[q].at = "search"
  /\ query'[q].pc = "retrieved"

\* The points whose vector is the vector of p: they tie with p at the top of
\* a search for the vector of p.
TiedWith(p) == {o \in points : o.vector = p.vector}

\* The first n contexts of a search result.
TopTexts(contexts, n) == {contexts[i] : i \in 1..Min(n, Len(contexts))}

\* C12 as stated: a search with the vector of a stored point as the query,
\* top_k >= 1, returns the text of that point among the top or tied-top
\* contexts and its source among the sources.
C12_RoundTrip ==
  [][\A q \in QueryRuns :
       Searches(q) =>
          \A p \in points :
             p.vector = query[q].query_vector =>
                LET result == query'[q].search_result
                IN /\ p.payload.text \in TopTexts(result.contexts, Cardinality(TiedWith(p)))
                   /\ \E i \in 1..Len(result.sources) :
                         result.sources[i] = p.payload.source]_vars

\* C12, amended: a search with the vector of a stored point as the query,
\* top_k >= 1, returns as its top context the text of a point that has that
\* vector, the point itself or one that ties with it; when top_k is at least
\* the number of the points that tie, the text of the point is among the
\* tied-top contexts and its source among the sources.
C12_RoundTripTies ==
  [][\A q \in QueryRuns :
       Searches(q) =>
          \A p \in points :
             p.vector = query[q].query_vector =>
                LET result == query'[q].search_result
                    tied == TiedWith(p)
                IN /\ result.contexts # <<>>
                   /\ result.contexts[1] \in {o.payload.text : o \in tied}
                   /\ TopKOf(query[q].event) >= Cardinality(tied) =>
                        /\ p.payload.text \in TopTexts(result.contexts, Cardinality(tied))
                        /\ \E i \in 1..Len(result.sources) :
                              result.sources[i] = p.payload.source]_vars

\* a search has answered whose query vector, whatever the embedding service
\* returned for the question, was the vector of a stored point, with two
\* stored points that tie
C12_Witness ==
  \E q \in QueryRuns :
     /\ query[q].pc = "retrieved"
     /\ query[q].search_result.contexts # <<>>
     /\ \A variant \in 0..(NumVariants - 1) :
          \E p \in points : p.vector = EmbedVec(query[q].event.question, variant)
     /\ \E p, o \in points : p # o /\ p.vector = o.vector

\* The positions of a run inside QdrantStorage.__init__.
CtorPositions == {"exists", "create", "get"}

\* C13: constructions of the adapter, one after the other or concurrent,
\* leave one collection: a constructed adapter has the collection, an
\* existing collection and its points are left as they are by every call of
\* a constructor, and a constructor raises only when its creation failed and
\* there is still no collection, or when the backend did not answer the
\* existence check or the lookup; it never raises because the collection
\* exists already.
C13_EnsureIdempotent ==
  /\ [](\A r \in IngestRuns :
         (ingest[r].pc = "chunked" /\ ingest[r].at = "upsert") => collExists)
  /\ [][/\ collExists => (collExists' /\ collDim' = collDim)
        /\ \A r \in IngestRuns :
             (/\ ingest[r].pc = "chunked" /\ ingest[r].at \in CtorPositions
              /\ ingest'[r].at # ingest[r].at) =>
                /\ points' = points
                /\ ingest'[r].pc = "failed" =>
                     \/ /\ ingest'[r].err = "CreateFailed"
                        /\ ingest[r].at = "get" /\ ~collExists
                     \/ /\ ingest'[r].err = "StorageError"
                        /\ ingest[r].at \in {"exists", "get"}]_vars

\* two runs found the collection absent; one has created it and is
\* constructed, the creation of the other did not succeed and it goes on to
\* look the collection up
C13_Witness ==
  \E r, o \in IngestRuns :
     /\ r # o
     /\ ingest[r].pc = "chunked" /\ ingest[r].at = "get" /\ collExists
     /\ ingest[o].pc = "chunked" /\ ingest[o].at = "upsert"

\* C14: when the collection exists already, the adapter is constructed only
\* over a collection whose vector size is the configured one.
C14_DimensionVerified ==
  \A r \in IngestRuns :
     (ingest[r].pc = "chunked" /\ ingest[r].at = "upsert") =>
        collDim = EMBEDDING_DIM

\* C15 as stated: no step of a query run changes the store, neither the
\* collection nor its set of points.
C15_QueryNoMutation ==
  [][collExists' = collExists /\ collDim' = collDim /\ points' = points]_vars

\* C15, amended: no step of a query run, of a run that completes or of one
\* that fails, changes the set of points or an existing collection; the one
\* change a query run makes to the store is to create the collection, empty,
\* when it does not exist.
C15_QueryKeepsPoints ==
  [][/\ points' = points
     /\ collExists => (collExists' /\ collDim' = collDim)
     /\ collExists' # collExists =>
          /\ points = {} /\ collDim' = EMBEDDING_DIM
          /\ \E q \in QueryRuns :
                query[q].pc = "embedded" /\ query[q].at = "create"]_vars

\* a query run has completed over a collection that holds points
C15_Witness ==
  \E q \in QueryRuns :
     /\ query[q].pc = "done"
     /\ collExists /\ points # {}

\* C18: after an ingest of a source with N chunks and a later ingest of the
\* same source with M < N chunks, the points of the ids of (source, M..N-1)
\* are still the points of the earlier ingest, and the store holds N points
\* of that source.  (That a later query can return the stale text is shown
\* by the state C18_Witness.)
C18_StalePointsRemain ==
  \A r, o \in IngestRuns :
     (/\ r < o
      /\ ingest[r].pc = "done" /\ ingest[o].pc = "done"
      /\ RunSource(r) = RunSource(o)
      /\ Len(RunChunks(o)) < Len(RunChunks(r))) =>
        /\ \A i \in Len(RunChunks(o))..(Len(RunChunks(r)) - 1) :
             \E p \in points :
                /\ p.id = PointId(RunSource(r), i)
                /\ p.payload = [source |-> RunSource(r), text |-> RunChunks(r)[i + 1]]
        /\ Cardinality({p \in points : p.payload.source = RunSource(r)})
              = Len(RunChunks(r))

\* the last ingest of a source had fewer chunks than the one before, and a
\* query that ran after it was answered with the last chunk of the earlier
\* document
C18_Witness ==
  \E q \in QueryRuns :
     /\ ingest[NumIngestRuns].pc = "done" /\ ingest[NumIngestRuns - 1].pc = "done"
     /\ RunSource(NumIngestRuns) = RunSource(NumIngestRuns - 1)
     /\ Len(RunChunks(NumIngestRuns)) < Len(RunChunks(NumIngestRuns - 1))
     /\ query[q].pc = "done"
     /\ \E i \in 1..Len(query[q].search_result.contexts) :
          query[q].search_result.contexts[i] =
             RunChunks(NumIngestRuns - 1)[Len(RunChunks(NumIngestRuns - 1))]

\* The questions whose query raised, by the lines the script printed.
ErroredQuestions ==
  {test_questions[harness.log[j].i] :
     j \in {l \in 1..Len(harness.log) : harness.log[l].error = "QueryError"}}

\* The questions asked so far whose query returned, in the order asked.
Succeeded ==
  LET Returned(question) == question \notin ErroredQuestions
  IN SelectSeq(SubSeq(test_questions, 1, harness.i - 1), Returned)

\* C16: the script asks the questions one after the other, in the order of
\* the list; a question whose query raised has its error printed and no row
\* in results; whatever raised, the script leaves the loop only after the
\* last question; and the means it reports are the sums of the scores of the
\* rows of the questions whose query returned, over the number of those
\* questions.
C16_HarnessSkipsErrors ==
  /\ Len(harness.log) = harness.i - 1
  /\ \A j \in 1..Len(harness.log) : harness.log[j].i = j
  /\ harness.pc # "querying" => harness.i = Len(test_questions) + 1
  /\ [k \in 1..Len(harness.results) |-> harness.results[k].question] = Succeeded
  /\ harness.pc \in {"built", "evaluated", "saved"} =>
        harness.data.question = Succeeded
  /\ harness.pc \in {"evaluated", "saved"} =>
        /\ Len(harness.metrics.faithfulness) = Len(Succeeded)
        /\ Len(harness.metrics.answer_relevancy) = Len(Succeeded)
  /\ harness.pc = "saved" =>
        /\ harness.scores.faithfulness =
              [num |-> SumSeq(harness.metrics.faithfulness), den |-> Len(Succeeded)]
        /\ harness.scores.answer_relevancy =
              [num |-> SumSeq(harness.metrics.answer_relevancy), den |-> Len(Succeeded)]

\* the query of a question raised, the question after it was answered, and
\* the means were reported
C16_Witness ==
  /\ harness.pc = "saved"
  /\ \E j \in 1..(Len(harness.log) - 1) :
       /\ harness.log[j].error = "QueryError"
       /\ harness.log[j + 1].line = "Answer"
  /\ harness.scores.faithfulness.den < Len(test_questions)

\* C19: in the data handed to evaluate, the reference answer of each row is
\* the one that is paired with the question of the row in the lists of the
\* script.
C19_GroundTruthAligned ==
  harness.pc \in {"built", "evaluated", "saved"} =>
     \A k \in 1..Len(harness.data.question) :
        \E n \in 1..Len(test_questions) :
           /\ test_questions[n] = harness.data.question[k]
           /\ ground_truths[n] = harness.data.ground_truth[k]

PollOver == poll.pc \in {"returned", "RuntimeError", "TimeoutError"}

\* C17: wait_for_run_output ends, in one of three ways: it returns, and then
\* the status it polled last is a completed one and what it returns is the
\* output of that run; it raises RuntimeError, and then the status is Failed
\* or Cancelled; or it raises TimeoutError, and then elapsed exceeds
\* timeout_s and the last status is that of a run that is not over, or
\* still "Pending" when no fetch had an answer.  It polls no further once a
\* turn has found elapsed above timeout_s.
C17_PollTerminates ==
  /\ <>PollOver
  /\ [](poll.pc = "returned" =>
          poll.last_status \in CompletedStatuses /\ poll.returned \in Outputs \ {None})
  /\ [](poll.pc # "returned" => poll.returned = None)
  /\ [](poll.pc = "RuntimeError" => poll.last_status \in FailedStatuses)
  /\ [](poll.pc = "TimeoutError" =>
          /\ poll.elapsed > poll.timeout_s
          /\ poll.last_status \in {"Pending", "Queued", "Running"})
  /\ [][(poll.pc = "polling" /\ poll.elapsed > poll.timeout_s) => PollOver']_vars

\* the wait has timed out while no fetch of the status had an answer
C17_Witness ==
  /\ poll.pc = "TimeoutError"
  /\ poll.last_status = "Pending"
====
